---- MODULE Spec2Model ----
(***************************************************************************)
(* Model of the account transaction engine of banking_app (src/app.py):    *)
(* Subject/Customer (observer), the interest strategies (strategy),        *)
(* Account (receiver), DepositCommand and WithdrawCommand (command) and    *)
(* the dashboard and /transact routes (invoker).                           *)
(*                                                                         *)
(* Money is a Python float in the source (1000.00, float(form amount)).    *)
(* A float is modelled as an IEEE-754 binary64 value: a sign and a         *)
(* magnitude that is a natural number of units 2^-FracBits, kept as a      *)
(* little-endian sequence of limbs, and every addition, subtraction and    *)
(* product rounds to 53 significant bits, ties to even.  Values stay far   *)
(* from overflow and from subnormals within the bounds; amounts of at      *)
(* least one cent are exact multiples of the unit.                         *)
(*                                                                         *)
(* Spec runs the calls one after the other.  CommandSpec keeps to the      *)
(* calls made through commands, InterestSpec asks the interest of accounts *)
(* that hold given balances, and ConcurrentSpec serves two /transact       *)
(* requests at once, read by read and write by write.                      *)
(***************************************************************************)
EXTENDS Integers, Sequences, FiniteSets, TLC

\* ------------------------------------------------------------------------
\* Natural numbers of arbitrary size: little-endian sequences of limbs in
\* 0..Base-1, the last limb nonzero (zero is the empty sequence).  Bits are
\* numbered from 1, the least significant.
\* ------------------------------------------------------------------------

LimbBits == 15

Base == 2 ^ LimbBits

Zeros(k) == [i \in 1..k |-> 0]

RECURSIVE Trim(_)
Trim(s) == IF s = << >> THEN << >>
           ELSE IF s[Len(s)] # 0 THEN s
           ELSE Trim(SubSeq(s, 1, Len(s) - 1))

RECURSIVE FromNat(_)
FromNat(n) == IF n = 0 THEN << >> ELSE <<n % Base>> \o FromNat(n \div Base)

RECURSIVE ToNat(_)
ToNat(s) == IF s = << >> THEN 0 ELSE s[1] + Base * ToNat(Tail(s))

MaxOf(x, y) == IF x >= y THEN x ELSE y

LimbAt(s, j) == IF j >= 1 /\ j <= Len(s) THEN s[j] ELSE 0

RECURSIVE AddC(_, _, _, _)
AddC(a, b, j, c) ==
    IF j > MaxOf(Len(a), Len(b))
    THEN (IF c = 1 THEN <<1>> ELSE << >>)
    ELSE LET s == LimbAt(a, j) + LimbAt(b, j) + c
         IN  <<s % Base>> \o AddC(a, b, j + 1, s \div Base)

BigAdd(a, b) == AddC(a, b, 1, 0)

RECURSIVE SubC(_, _, _, _)
SubC(a, b, j, c) ==
    IF j > Len(a) THEN << >>
    ELSE LET d == LimbAt(a, j) - LimbAt(b, j) - c
         IN  <<d % Base>> \o SubC(a, b, j + 1, IF d < 0 THEN 1 ELSE 0)

\* a - b for a >= b
BigSub(a, b) == Trim(SubC(a, b, 1, 0))

RECURSIVE GeqFrom(_, _, _)
GeqFrom(a, b, j) ==
    IF j = 0 THEN TRUE
    ELSE IF a[j] # b[j] THEN a[j] > b[j]
    ELSE GeqFrom(a, b, j - 1)

BigGeq(a, b) ==
    IF Len(a) # Len(b) THEN Len(a) > Len(b) ELSE GeqFrom(a, b, Len(a))

RECURSIVE MulC(_, _, _, _)
MulC(a, k, j, c) ==
    IF j > Len(a) THEN FromNat(c)
    ELSE LET s == a[j] * k + c
         IN  <<s % Base>> \o MulC(a, k, j + 1, s \div Base)

\* a * k for a natural k < Base
MulSmall(a, k) == Trim(MulC(a, k, 1, 0))

\* half a limb, so that a product of two pieces stays a small number
HalfBase == 2 ^ (LimbBits \div 2)

\* a * k for a limb k
MulLimb(a, k) ==
    BigAdd(MulSmall(MulSmall(a, k \div HalfBase), HalfBase),
           MulSmall(a, k % HalfBase))

RECURSIVE MulFrom(_, _, _)
MulFrom(a, b, j) ==
    IF j > Len(b) THEN << >>
    ELSE BigAdd(MulLimb(a, b[j]), <<0>> \o MulFrom(a, b, j + 1))

\* a * b
BigMul(a, b) == Trim(MulFrom(a, b, 1))

\* floor(a / d) and a mod d for 0 < d < Base, by long division
DivSmall(a, d) ==
    LET n == Len(a)
        rem[j \in 1..(n + 1)] ==
            IF j = n + 1 THEN 0 ELSE (Base * rem[j + 1] + a[j]) % d
    IN  [q |-> Trim([j \in 1..n |-> (Base * rem[j + 1] + a[j]) \div d]),
         r |-> IF n = 0 THEN 0 ELSE rem[1]]

\* a * 2^k
ShiftLeft(a, k) ==
    IF a = << >> THEN << >>
    ELSE Zeros(k \div LimbBits) \o MulSmall(a, 2 ^ (k % LimbBits))

\* floor(a / 2^k)
ShiftRight(a, k) ==
    IF Len(a) <= k \div LimbBits THEN << >>
    ELSE DivSmall(SubSeq(a, k \div LimbBits + 1, Len(a)), 2 ^ (k % LimbBits)).q

\* number of significant bits of a
BitLen(a) ==
    IF a = << >> THEN 0
    ELSE LimbBits * (Len(a) - 1)
           + Cardinality({e \in 0..(LimbBits - 1) : 2 ^ e <= a[Len(a)]})

\* bit i of a
BitAt(a, i) ==
    IF i < 1 THEN 0
    ELSE (LimbAt(a, (i - 1) \div LimbBits + 1) \div 2 ^ ((i - 1) % LimbBits)) % 2

\* some bit of a below bit i is set
AnyBelow(a, i) ==
    \E j \in 1..Len(a) :
        \/ j < (i - 1) \div LimbBits + 1 /\ a[j] # 0
        \/ j = (i - 1) \div LimbBits + 1 /\ a[j] % 2 ^ ((i - 1) % LimbBits) # 0

\* a with its k lowest bits cleared
ClearLow(a, k) ==
    [j \in 1..Len(a) |->
        IF j <= k \div LimbBits THEN 0
        ELSE IF j = k \div LimbBits + 1
             THEN (a[j] \div 2 ^ (k % LimbBits)) * 2 ^ (k % LimbBits)
             ELSE a[j]]

\* ------------------------------------------------------------------------
\* Python float (IEEE-754 binary64)
\* ------------------------------------------------------------------------

\* significand width of a binary64
MantissaBits == 53

\* the unit of a magnitude is 2^-FracBits
FracBits == 61

\* dropping the k lowest bits of n rounds up: ties to even; sticky says that
\* the exact value lies strictly above n
RoundsUp(n, sticky, k) ==
    BitAt(n, k) = 1 /\ (sticky \/ AnyBelow(n, k) \/ BitAt(n, k + 1) = 1)

RoundTo(low, up, k) == IF up THEN BigAdd(low, ShiftLeft(<<1>>, k)) ELSE low

RoundAt(n, sticky, k) ==
    IF k <= 0 THEN n ELSE RoundTo(ClearLow(n, k), RoundsUp(n, sticky, k), k)

\* n rounded to MantissaBits significant bits
RoundNearestEven(n, sticky) == RoundAt(n, sticky, BitLen(n) - MantissaBits)

Float(neg, mag) == [neg |-> neg /\ mag # << >>, mag |-> mag]

FZero == Float(FALSE, << >>)

FNeg(x) == Float(~x.neg, x.mag)

\* the exact sum of x and y
ExactAdd(x, y) ==
    IF x.neg = y.neg THEN [neg |-> x.neg, mag |-> BigAdd(x.mag, y.mag)]
    ELSE IF BigGeq(x.mag, y.mag) THEN [neg |-> x.neg, mag |-> BigSub(x.mag, y.mag)]
    ELSE [neg |-> y.neg, mag |-> BigSub(y.mag, x.mag)]

Rounded(e) == Float(e.neg, RoundNearestEven(e.mag, FALSE))

\* x + y
FAdd(x, y) == Rounded(ExactAdd(x, y))

\* x - y
FSub(x, y) == FAdd(x, FNeg(y))

\* x * y, for a product that is zero or at least 2^-(MantissaBits-1) units
\* of 2^-FracBits (the rounded product is then a whole number of units)
FMul(x, y) ==
    Float(x.neg # y.neg,
          ShiftRight(RoundNearestEven(BigMul(x.mag, y.mag), FALSE), FracBits))

\* x >= y
FGeq(x, y) ==
    IF x.neg # y.neg THEN y.neg
    ELSE IF x.neg THEN BigGeq(y.mag, x.mag)
    ELSE BigGeq(x.mag, y.mag)

\* x > y
FGt(x, y) == ~FGeq(y, x)

RoundedQuotient(neg, d) == Float(neg, RoundNearestEven(d.q, d.r # 0))

\* float("c/100") for a decimal amount of c cents: the binary64 nearest to it
ParseFloat(c) ==
    RoundedQuotient(c < 0,
        DivSmall(ShiftLeft(FromNat(IF c < 0 THEN 0 - c ELSE c), FracBits), 100))

\* t / 2^FracBits rounded to an integer, ties to even
RoundedUnits(t) ==
    ToNat(ShiftRight(t, FracBits))
      + (IF RoundsUp(t, FALSE, FracBits) THEN 1 ELSE 0)

Signed(neg, c) == IF neg THEN 0 - c ELSE c

\* f"{x:.2f}": x rounded to two decimals (ties of the exact binary value to
\* even), as a signed number of cents
Format2f(x) == Signed(x.neg, RoundedUnits(MulSmall(x.mag, 100)))

\* round(x, 2): the float nearest to x rounded to two decimals
Round2(x) == ParseFloat(Format2f(x))

\* ------------------------------------------------------------------------
\* The in-memory data store and the inputs
\* ------------------------------------------------------------------------

ACCOUNTS == {"S101", "C202"}

CUSTOMERS == {"Alice", "Bob"}

\* Account("S101", ..., 1000.00, ...) and Account("C202", ..., 500.00, ...)
InitialBalance == [a \in ACCOUNTS |->
                     ParseFloat(IF a = "S101" THEN 100000 ELSE 50000)]

\* account_savings.attach(customer_alice); account_current.attach(customer_bob)
InitialObservers == [a \in ACCOUNTS |->
                       IF a = "S101" THEN <<"Alice">> ELSE <<"Bob">>]

\* the interest strategy classes; "None" is the value None
STRATEGIES == {"SavingsInterest", "FDInterest", "CurrentInterest"}

\* Account(..., SavingsInterest()) and Account(..., CurrentInterest())
InitialStrategy == [a \in ACCOUNTS |->
                      IF a = "S101" THEN "SavingsInterest" ELSE "CurrentInterest"]

\* the threads of the server that serve requests at the same time
THREADS == {1, 2}

\* Amounts are written in cents: 2407 is the text "24.07", 100000 "1000.00".

\* account.attach(customer) calls: a second observer and a repeated one
Attachments == {<<"S101", "Alice">>, <<"S101", "Bob">>}

\* account.deposit(amount) calls: an amount that is no binary fraction, and
\* one that lets the current account afford 1000.00
Deposits == {<<"S101", 2407>>, <<"C202", 100000>>}

\* account.withdraw(amount) calls: less than, all of, and more than the
\* opening balance
Withdrawals == {<<"S101", 2407>>, <<"S101", 100000>>, <<"C202", 100000>>}

\* the command objects callers construct
CommandArguments == {<<"deposit", "S101", 2407>>, <<"deposit", "C202", 100000>>,
                     <<"withdraw", "S101", 100000>>}

\* the POST /transact forms that are sent: three that pass the route's
\* tests and four that do not
Requests ==
    {[account_id |-> "S101", transaction_type |-> "deposit", amount |-> 2407],
     [account_id |-> "S101", transaction_type |-> "withdraw", amount |-> 100000],
     [account_id |-> "C202", transaction_type |-> "withdraw", amount |-> 100000],
     [account_id |-> "X999", transaction_type |-> "deposit", amount |-> 2407],
     [account_id |-> "S101", transaction_type |-> "deposit", amount |-> 0],
     [account_id |-> "C202", transaction_type |-> "withdraw", amount |-> 0 - 2407],
     [account_id |-> "S101", transaction_type |-> "transfer", amount |-> 2407]}

\* balances, in cents, that an account is given before its interest is asked
BalanceCents == {0, 25, 75, 225, 50000, 100000, 102407}

\* calls made in one behaviour
MaxCalls == 3

\* command objects constructed by callers in one behaviour
MaxCommands == 1

VARIABLES
    balance,              \* Account._balance, per account
    observers,            \* Subject._observers, per account
    notifications,        \* Customer.notifications, per customer
    transaction_history,  \* Account.transaction_history, per account
    commands,             \* the command objects callers hold, in creation order
    last,                 \* the latest call: its arguments, what it saw and returned
    snapshot,             \* per command: the receiver's balance when execute() was last called
    undone,               \* per command: an undo() of it has taken effect
    deposited,            \* per account: exact sum of the amounts passed to deposit()
    onlyDeposits,         \* per account: no withdraw() was called on it yet
    ncalls,               \* number of calls made
    interest_strategy,    \* Account.interest_strategy, per account
    interest,             \* per account: the latest calculate_yearly_interest() call
    inflight              \* per server thread: the /transact request it is serving

vars == <<balance, observers, notifications, transaction_history, commands,
          last, snapshot, undone, deposited, onlyDeposits, ncalls,
          interest_strategy, interest, inflight>>

\* ------------------------------------------------------------------------
\* Observer
\* ------------------------------------------------------------------------

\* attach without the membership test
attach_again(obs, observer) == Append(obs, observer)

\* attach that looks at the newest observer only
attach_unless_newest(obs, observer) ==
    IF obs # << >> /\ obs[Len(obs)] = observer THEN obs ELSE Append(obs, observer)

\* Subject.attach
attach(obs, observer) ==
    IF \E i \in 1..Len(obs) : obs[i] = observer THEN obs ELSE Append(obs, observer)

\* update that writes the message into every customer's log
update_everyone(ns, observer, message) ==
    [c \in DOMAIN ns |-> Append(ns[c], message)]

\* Customer.update
update(ns, observer, message) ==
    [ns EXCEPT ![observer] = Append(@, message)]

\* Subject.notify: the logs after the fan-out, and the update calls in order
RECURSIVE notify(_, _, _, _)
notify(ns, obs, message, calls) ==
    IF obs = << >> THEN [notifications |-> ns, calls |-> calls]
    ELSE notify(update(ns, Head(obs), message), Tail(obs), message,
                Append(calls, Head(obs)))

\* ------------------------------------------------------------------------
\* Strategy.  A call leaves the value it returns, or raised when it ended in
\* an exception.
\* ------------------------------------------------------------------------

Returns(value) == [raised |-> FALSE, value |-> value]

Raises == [raised |-> TRUE, value |-> FZero]

\* SavingsInterest.calculate_interest: round(balance * 0.02, 2)
SavingsInterest_calculate_interest(b) == Round2(FMul(b, ParseFloat(2)))

\* FDInterest.calculate_interest: round(balance * 0.05, 2)
FDInterest_calculate_interest(b) == Round2(FMul(b, ParseFloat(5)))

\* CurrentInterest.calculate_interest: 0.00
CurrentInterest_calculate_interest(b) == FZero

\* strategy.calculate_interest(b), dispatched on the class of strategy; None
\* has no such method (AttributeError)
calculate_interest(strategy, b) ==
    IF strategy = "SavingsInterest" THEN Returns(SavingsInterest_calculate_interest(b))
    ELSE IF strategy = "FDInterest" THEN Returns(FDInterest_calculate_interest(b))
    ELSE IF strategy = "CurrentInterest"
         THEN Returns(CurrentInterest_calculate_interest(b))
    ELSE Raises

\* Account.calculate_yearly_interest
calculate_yearly_interest(a) == calculate_interest(interest_strategy[a], balance[a])

\* ------------------------------------------------------------------------
\* Account.  A method works on st = [balance, notifications] and leaves the
\* balances, the logs, the update calls it made and the value it returns.
\* ------------------------------------------------------------------------

Message(kind, ok, amount, bal) ==
    [kind |-> kind, ok |-> ok, amount |-> Format2f(amount), balance |-> Format2f(bal)]

Notified(bal, n, ret) ==
    [balance |-> bal, notifications |-> n.notifications, calls |-> n.calls,
     ret |-> ret]

\* self._balance is b now: notify and return True
Deposited(st, a, amount, b) ==
    Notified([st.balance EXCEPT ![a] = b],
             notify(st.notifications, observers[a],
                    Message("Deposit", TRUE, amount, b), << >>),
             TRUE)

\* Account.deposit
deposit(st, a, amount) == Deposited(st, a, amount, FAdd(st.balance[a], amount))

\* withdraw that reports the balance it found
Withdrawn_stale(st, a, amount, ok, b) ==
    Notified([st.balance EXCEPT ![a] = b],
             notify(st.notifications, observers[a],
                    Message("Withdrawal", ok, amount, st.balance[a]), << >>),
             ok)

\* self._balance is b now: notify success or failure and return ok
Withdrawn(st, a, amount, ok, b) ==
    Notified([st.balance EXCEPT ![a] = b],
             notify(st.notifications, observers[a],
                    Message("Withdrawal", ok, amount, b), << >>),
             ok)

\* the two branches of Account.withdraw
WithdrawIf(st, a, amount, ok) ==
    Withdrawn(st, a, amount, ok,
              IF ok THEN FSub(st.balance[a], amount) ELSE st.balance[a])

\* withdraw without the funds check
withdraw_unchecked(st, a, amount) == WithdrawIf(st, a, amount, TRUE)

\* Account.withdraw
withdraw(st, a, amount) == WithdrawIf(st, a, amount, FGeq(st.balance[a], amount))

Here == [balance |-> balance, notifications |-> notifications]

\* ------------------------------------------------------------------------
\* Commands.  The result of a method is the state it leaves: balances, logs,
\* histories, the command's _executed flag, the value returned, and which
\* Account method it called.
\* ------------------------------------------------------------------------

Entry(text, amount) == [text |-> text, amount |-> Format2f(amount)]

\* DepositCommand.__init__ / WithdrawCommand.__init__
Command(kind, a, amount) ==
    [kind |-> kind, receiver |-> a, amount |-> amount, executed |-> FALSE]

\* the receiver method returned r: what the command method leaves, having
\* appended text to the history and set _executed to flag, or neither
Result(cmd, r, method, done, text, flag, ret) ==
    [balance |-> r.balance, notifications |-> r.notifications, calls |-> r.calls,
     history |-> IF done
                 THEN [transaction_history EXCEPT ![cmd.receiver] =
                          Append(@, Entry(text, cmd.amount))]
                 ELSE transaction_history,
     executed |-> IF done THEN flag ELSE cmd.executed,
     ret |-> ret, method |-> method]

NoCall == [balance |-> balance, notifications |-> notifications, calls |-> << >>]

DepositExecuted(cmd, r) ==
    Result(cmd, r, "deposit", r.ret, "Deposit +", TRUE,
           IF r.ret THEN "Deposit of $ executed." ELSE "Deposit failed.")

\* DepositCommand.execute
DepositCommand_execute(cmd) ==
    DepositExecuted(cmd, deposit(Here, cmd.receiver, cmd.amount))

\* undo without the _executed test
DepositCommand_undo_unguarded(cmd) ==
    Result(cmd, withdraw(Here, cmd.receiver, cmd.amount), "withdraw", TRUE,
           "Deposit UNDO -", FALSE, "Deposit of $ undone.")

\* DepositCommand.undo
DepositCommand_undo(cmd) ==
    IF cmd.executed
    THEN Result(cmd, withdraw(Here, cmd.receiver, cmd.amount), "withdraw", TRUE,
                "Deposit UNDO -", FALSE, "Deposit of $ undone.")
    ELSE Result(cmd, NoCall, "none", FALSE, "", FALSE,
                "Deposit command not executed or already undone.")

\* execute that records the withdrawal whatever withdraw() returned
WithdrawExecuted_always(cmd, r) ==
    Result(cmd, r, "withdraw", TRUE, "Withdrawal -", TRUE,
           "Withdrawal of $ executed.")

WithdrawExecuted(cmd, r) ==
    Result(cmd, r, "withdraw", r.ret, "Withdrawal -", TRUE,
           IF r.ret THEN "Withdrawal of $ executed."
           ELSE "Withdrawal failed due to insufficient funds.")

\* WithdrawCommand.execute
WithdrawCommand_execute(cmd) ==
    WithdrawExecuted(cmd, withdraw(Here, cmd.receiver, cmd.amount))

\* undo that withdraws once more instead of depositing
WithdrawCommand_undo_withdraws(cmd) ==
    IF cmd.executed
    THEN Result(cmd, withdraw(Here, cmd.receiver, cmd.amount), "withdraw", TRUE,
                "Withdrawal UNDO +", FALSE, "Withdrawal of $ undone.")
    ELSE Result(cmd, NoCall, "none", FALSE, "", FALSE,
                "Withdrawal command not executed or already undone.")

\* WithdrawCommand.undo
WithdrawCommand_undo(cmd) ==
    IF cmd.executed
    THEN Result(cmd, deposit(Here, cmd.receiver, cmd.amount), "deposit", TRUE,
                "Withdrawal UNDO +", FALSE, "Withdrawal of $ undone.")
    ELSE Result(cmd, NoCall, "none", FALSE, "", FALSE,
                "Withdrawal command not executed or already undone.")

\* Command.execute / Command.undo, dispatched on the concrete class
execute(cmd) ==
    IF cmd.kind = "deposit" THEN DepositCommand_execute(cmd)
    ELSE WithdrawCommand_execute(cmd)

undo(cmd) ==
    IF cmd.kind = "deposit" THEN DepositCommand_undo(cmd)
    ELSE WithdrawCommand_undo(cmd)

\* ------------------------------------------------------------------------
\* The state machine
\* ------------------------------------------------------------------------

Call(op, a, kind, cmd, amount, ret, calls, was, now, follows) ==
    [op |-> op, account |-> a, kind |-> kind, cmd |-> cmd, amount |-> amount,
     ret |-> ret, calls |-> calls,
     pre |-> IF a \in ACCOUNTS THEN balance[a] ELSE FZero,
     wasExecuted |-> was, executed |-> now, follows |-> follows]

NotCalled ==
    [called |-> FALSE, raised |-> FALSE, value |-> FZero, balance |-> FZero,
     strategy |-> "None"]

Idle ==
    [pc |-> "idle", account |-> "none", kind |-> "none", amount |-> FZero,
     seen |-> FZero, ok |-> FALSE]

\* the module-level data store, with the accounts' balances at b
DataStore(b) ==
    /\ balance = b
    /\ observers = InitialObservers
    /\ notifications = [c \in CUSTOMERS |-> << >>]
    /\ transaction_history = [a \in ACCOUNTS |-> << >>]
    /\ commands = << >>
    /\ snapshot = << >>
    /\ undone = << >>
    /\ deposited = [a \in ACCOUNTS |-> << >>]
    /\ onlyDeposits = [a \in ACCOUNTS |-> TRUE]
    /\ ncalls = 0
    /\ last = [op |-> "init", account |-> "none", kind |-> "none", cmd |-> 0,
               amount |-> FZero, ret |-> "none", calls |-> << >>, pre |-> FZero,
               wasExecuted |-> FALSE, executed |-> FALSE, follows |-> FALSE]
    /\ interest_strategy = InitialStrategy
    /\ interest = [a \in ACCOUNTS |-> NotCalled]
    /\ inflight = [t \in THREADS |-> Idle]

Init == DataStore(InitialBalance)

\* an Account method was called on a with amount (method says which), by a
\* command method or directly: r is what it leaves
Effect(r, a, amount, method) ==
    /\ balance' = r.balance
    /\ notifications' = r.notifications
    /\ deposited' = IF method = "deposit"
                    THEN [deposited EXCEPT ![a] = BigAdd(@, amount.mag)]
                    ELSE deposited
    /\ onlyDeposits' = IF method = "withdraw"
                       THEN [onlyDeposits EXCEPT ![a] = FALSE]
                       ELSE onlyDeposits
    /\ ncalls' = ncalls + 1

Welcomed(n) ==
    /\ notifications' = n.notifications
    /\ last' = Call("main", "none", "none", 0, FZero, "None", n.calls,
                    FALSE, FALSE, FALSE)
    /\ ncalls' = ncalls + 1
    /\ UNCHANGED <<balance, observers, transaction_history, commands, snapshot,
                   undone, deposited, onlyDeposits>>
    /\ UNCHANGED <<interest_strategy, interest, inflight>>

\* python app.py: the two welcome notifications, before any request is served
main ==
    /\ last.op = "init"
    /\ ncalls < MaxCalls
    /\ Welcomed(notify(notify(notifications, observers["S101"],
                              [kind |-> "Welcome", ok |-> TRUE, amount |-> 0,
                               balance |-> 0], << >>).notifications,
                       observers["C202"],
                       [kind |-> "Welcome", ok |-> TRUE, amount |-> 0,
                        balance |-> 0], <<"Alice">>))

\* account.attach(customer)
Attach(a, c) ==
    /\ ncalls < MaxCalls
    /\ observers' = [observers EXCEPT ![a] = attach(@, c)]
    /\ last' = Call("attach", a, c, 0, FZero, "None", << >>, FALSE, FALSE, FALSE)
    /\ ncalls' = ncalls + 1
    /\ UNCHANGED <<balance, notifications, transaction_history, commands,
                   snapshot, undone, deposited, onlyDeposits>>
    /\ UNCHANGED <<interest_strategy, interest, inflight>>

Called(op, a, amount, r) ==
    /\ Effect(r, a, amount, op)
    /\ last' = Call(op, a, op, 0, amount, IF r.ret THEN "True" ELSE "False",
                    r.calls, FALSE, FALSE, FALSE)
    /\ UNCHANGED <<observers, transaction_history, commands, snapshot, undone>>
    /\ UNCHANGED <<interest_strategy, interest, inflight>>

DepositAmount(a, amount) == Called("deposit", a, amount, deposit(Here, a, amount))

\* account.deposit(amount)
Deposit(a, cents) ==
    /\ ncalls < MaxCalls
    /\ DepositAmount(a, ParseFloat(cents))

WithdrawAmount(a, amount) == Called("withdraw", a, amount, withdraw(Here, a, amount))

\* account.withdraw(amount)
Withdraw(a, cents) ==
    /\ ncalls < MaxCalls
    /\ WithdrawAmount(a, ParseFloat(cents))

Constructed(cmd) ==
    /\ commands' = Append(commands, cmd)
    /\ snapshot' = Append(snapshot, balance[cmd.receiver])
    /\ undone' = Append(undone, FALSE)
    /\ last' = Call("new", cmd.receiver, cmd.kind, Len(commands) + 1, cmd.amount,
                    "None", << >>, FALSE, FALSE, FALSE)
    /\ UNCHANGED <<balance, observers, notifications, transaction_history,
                   deposited, onlyDeposits, ncalls>>
    /\ UNCHANGED <<interest_strategy, interest, inflight>>

\* DepositCommand(account, amount) / WithdrawCommand(account, amount)
NewCommand(kind, a, cents) ==
    /\ Len(commands) < MaxCommands
    /\ Constructed(Command(kind, a, ParseFloat(cents)))

\* a method of the command object commands[i] returned with r
Returned(op, i, cmd, r, follows) ==
    /\ Effect(r, cmd.receiver, cmd.amount, r.method)
    /\ transaction_history' = r.history
    /\ commands' = [commands EXCEPT ![i].executed = r.executed]
    /\ snapshot' = IF op = "execute"
                   THEN [snapshot EXCEPT ![i] = balance[cmd.receiver]]
                   ELSE snapshot
    /\ undone' = IF op = "undo" /\ cmd.executed
                 THEN [undone EXCEPT ![i] = TRUE]
                 ELSE undone
    /\ last' = Call(op, cmd.receiver, cmd.kind, i, cmd.amount, r.ret, r.calls,
                    cmd.executed, r.executed, follows)
    /\ UNCHANGED observers
    /\ UNCHANGED <<interest_strategy, interest, inflight>>

\* commands[i].execute()
Execute(i) ==
    /\ ncalls < MaxCalls
    /\ Returned("execute", i, commands[i], execute(commands[i]), FALSE)

\* commands[i].undo()
Undo(i) ==
    /\ ncalls < MaxCalls
    /\ Returned("undo", i, commands[i], undo(commands[i]),
                last.op = "execute" /\ last.cmd = i)

\* transact from command.execute() on: the command is dropped on return
Executed(cmd, r) ==
    /\ Effect(r, cmd.receiver, cmd.amount, r.method)
    /\ transaction_history' = r.history
    /\ last' = Call("transact", cmd.receiver, cmd.kind, 0, cmd.amount, "redirect",
                    r.calls, FALSE, r.executed, FALSE)

Submitted(cmd) == Executed(cmd, execute(cmd))

Rejected(req, amount) ==
    /\ ncalls' = ncalls + 1
    /\ last' = Call("transact", req.account_id, req.transaction_type, 0, amount,
                    "redirect", << >>, FALSE, FALSE, FALSE)
    /\ UNCHANGED <<balance, notifications, transaction_history,
                   deposited, onlyDeposits>>

\* transact without the amount > 0 test
Parsed_any_amount(req, amount) ==
    IF req.account_id \in ACCOUNTS
          /\ req.transaction_type \in {"deposit", "withdraw"}
    THEN Submitted(Command(req.transaction_type, req.account_id, amount))
    ELSE Rejected(req, amount)

Parsed(req, amount) ==
    IF req.account_id \in ACCOUNTS /\ FGt(amount, FZero)
          /\ req.transaction_type \in {"deposit", "withdraw"}
    THEN Submitted(Command(req.transaction_type, req.account_id, amount))
    ELSE Rejected(req, amount)

\* POST /transact
transact(req) ==
    /\ ncalls < MaxCalls
    /\ Parsed(req, ParseFloat(req.amount))
    /\ UNCHANGED <<observers, commands, snapshot, undone>>
    /\ UNCHANGED <<interest_strategy, interest, inflight>>

Next ==
    \/ main
    \/ \E x \in Attachments : Attach(x[1], x[2])
    \/ \E x \in Deposits : Deposit(x[1], x[2])
    \/ \E x \in Withdrawals : Withdraw(x[1], x[2])
    \/ \E x \in CommandArguments : NewCommand(x[1], x[2], x[3])
    \/ \E i \in 1..Len(commands) : Execute(i)
    \/ \E i \in 1..Len(commands) : Undo(i)
    \/ \E req \in Requests : transact(req)

Spec == Init /\ [][Next]_vars

\* the calls that go through a command: no deposit or withdraw is called on
\* an account directly
CommandNext ==
    \/ \E x \in CommandArguments : NewCommand(x[1], x[2], x[3])
    \/ \E i \in 1..Len(commands) : Execute(i)
    \/ \E i \in 1..Len(commands) : Undo(i)
    \/ \E req \in Requests : transact(req)

CommandSpec == Init /\ [][CommandNext]_vars

\* ------------------------------------------------------------------------
\* Interest: the strategy of an account is replaced and its yearly interest
\* is asked, on accounts that hold any of the balances of BalanceCents
\* ------------------------------------------------------------------------

Asked(a, r) ==
    [called |-> TRUE, raised |-> r.raised, value |-> r.value,
     balance |-> balance[a], strategy |-> interest_strategy[a]]

\* calculate_yearly_interest that credits the interest to the account
Calculated_credited(a, r) ==
    /\ interest' = [interest EXCEPT ![a] = Asked(a, r)]
    /\ balance' = [balance EXCEPT ![a] = FAdd(@, r.value)]
    /\ UNCHANGED <<observers, notifications, transaction_history, commands, last,
                   snapshot, undone, deposited, onlyDeposits, ncalls,
                   interest_strategy, inflight>>

\* a.calculate_yearly_interest() ended with r
Calculated(a, r) ==
    /\ interest' = [interest EXCEPT ![a] = Asked(a, r)]
    /\ UNCHANGED <<balance, observers, notifications, transaction_history,
                   commands, last, snapshot, undone, deposited, onlyDeposits,
                   ncalls, interest_strategy, inflight>>

\* account.calculate_yearly_interest()
CalculateYearlyInterest(a) == Calculated(a, calculate_yearly_interest(a))

\* account.interest_strategy = strategy
SetStrategy(a, strategy) ==
    /\ interest_strategy' = [interest_strategy EXCEPT ![a] = strategy]
    /\ UNCHANGED <<balance, observers, notifications, transaction_history,
                   commands, last, snapshot, undone, deposited, onlyDeposits,
                   ncalls, interest, inflight>>

\* the two calls of the dashboard returned rs and rc; the second is not
\* made when the first raised
Rendered(rs, rc) ==
    /\ interest' = [interest EXCEPT
                       !["S101"] = Asked("S101", rs),
                       !["C202"] = IF rs.raised THEN @ ELSE Asked("C202", rc)]
    /\ UNCHANGED <<balance, observers, notifications, transaction_history,
                   commands, last, snapshot, undone, deposited, onlyDeposits,
                   ncalls, interest_strategy, inflight>>

\* GET /
dashboard ==
    Rendered(calculate_yearly_interest("S101"), calculate_yearly_interest("C202"))

InterestInit ==
    \E b \in [ACCOUNTS -> {ParseFloat(c) : c \in BalanceCents}] : DataStore(b)

InterestNext ==
    \/ \E a \in ACCOUNTS, strategy \in STRATEGIES \cup {"None"} :
          SetStrategy(a, strategy)
    \/ \E a \in ACCOUNTS : CalculateYearlyInterest(a)
    \/ dashboard

InterestSpec == InterestInit /\ [][InterestNext]_vars

\* ------------------------------------------------------------------------
\* Requests in flight at once.  The server gives each request a thread, and
\* no statement of transact, the commands or Account takes a lock: a thread
\* can be suspended between any two reads and writes of self._balance.  A
\* thread serves one /transact request, step by step:
\*   idle -> test (withdraw) -> load -> store -> notify -> record -> done
\* ------------------------------------------------------------------------

\* what no step of a thread that serves /transact writes
unserved == <<observers, commands, last, snapshot, undone, deposited,
              onlyDeposits, ncalls, interest_strategy, interest>>

\* transact up to the call of command.execute(), or to its return when the
\* form is refused
Received(t, req, amount) ==
    /\ inflight' = [inflight EXCEPT ![t] =
          IF req.account_id \in ACCOUNTS /\ FGt(amount, FZero)
                /\ req.transaction_type \in {"deposit", "withdraw"}
          THEN [pc |-> IF req.transaction_type = "deposit" THEN "load" ELSE "test",
                account |-> req.account_id, kind |-> req.transaction_type,
                amount |-> amount, seen |-> FZero, ok |-> TRUE]
          ELSE [pc |-> "done", account |-> req.account_id, kind |-> "none",
                amount |-> amount, seen |-> FZero, ok |-> FALSE]]
    /\ UNCHANGED <<balance, notifications, transaction_history>>
    /\ UNCHANGED unserved

Receive(t, req) ==
    /\ inflight[t].pc = "idle"
    /\ Received(t, req, ParseFloat(req.amount))

\* withdraw: if self._balance >= amount
Test(t) ==
    /\ inflight[t].pc = "test"
    /\ inflight' = [inflight EXCEPT
          ![t].ok = FGeq(balance[inflight[t].account], inflight[t].amount),
          ![t].pc = IF FGeq(balance[inflight[t].account], inflight[t].amount)
                    THEN "load" ELSE "notify"]
    /\ UNCHANGED <<balance, notifications, transaction_history>>
    /\ UNCHANGED unserved

\* self._balance += amount / self._balance -= amount: the read
Load(t) ==
    /\ inflight[t].pc = "load"
    /\ inflight' = [inflight EXCEPT ![t].seen = balance[inflight[t].account],
                                    ![t].pc = "store"]
    /\ UNCHANGED <<balance, notifications, transaction_history>>
    /\ UNCHANGED unserved

\* self._balance += amount / self._balance -= amount: the write
Store(t) ==
    /\ inflight[t].pc = "store"
    /\ balance' = [balance EXCEPT ![inflight[t].account] =
                      IF inflight[t].kind = "deposit"
                      THEN FAdd(inflight[t].seen, inflight[t].amount)
                      ELSE FSub(inflight[t].seen, inflight[t].amount)]
    /\ inflight' = [inflight EXCEPT ![t].pc = "notify"]
    /\ UNCHANGED <<notifications, transaction_history>>
    /\ UNCHANGED unserved

\* self.notify(f"... ${self._balance:.2f}") and the return to the command
Notify(t) ==
    /\ inflight[t].pc = "notify"
    /\ notifications' =
          notify(notifications, observers[inflight[t].account],
                 Message(IF inflight[t].kind = "deposit" THEN "Deposit"
                         ELSE "Withdrawal",
                         inflight[t].ok, inflight[t].amount,
                         balance[inflight[t].account]),
                 << >>).notifications
    /\ inflight' = [inflight EXCEPT ![t].pc = IF inflight[t].ok THEN "record"
                                              ELSE "done"]
    /\ UNCHANGED <<balance, transaction_history>>
    /\ UNCHANGED unserved

\* execute(): self._executed = True, the history entry, and the redirect
Record(t) ==
    /\ inflight[t].pc = "record"
    /\ transaction_history' =
          [transaction_history EXCEPT ![inflight[t].account] =
              Append(@, Entry(IF inflight[t].kind = "deposit" THEN "Deposit +"
                              ELSE "Withdrawal -",
                              inflight[t].amount))]
    /\ inflight' = [inflight EXCEPT ![t].pc = "done"]
    /\ UNCHANGED <<balance, notifications>>
    /\ UNCHANGED unserved

ConcurrentNext ==
    \/ \E t \in THREADS, req \in Requests : Receive(t, req)
    \/ \E t \in THREADS : Test(t)
    \/ \E t \in THREADS : Load(t)
    \/ \E t \in THREADS : Store(t)
    \/ \E t \in THREADS : Notify(t)
    \/ \E t \in THREADS : Record(t)

ConcurrentSpec == Init /\ [][ConcurrentNext]_vars

\* ------------------------------------------------------------------------
\* Properties
\* ------------------------------------------------------------------------

Attached(a) == {observers[a][i] : i \in 1..Len(observers[a])}

\* C1: a withdraw of a positive amount succeeds exactly when the amount is at
\* most the balance at the time of the call, and no balance is ever negative.
C1_WithdrawWithinBalance ==
    /\ \A a \in ACCOUNTS : FGeq(balance[a], FZero)
    /\ last.op = "withdraw" =>
          /\ (last.ret = "True") <=> FGeq(last.pre, last.amount)
          /\ balance[last.account] =
                IF last.ret = "True" THEN FSub(last.pre, last.amount) ELSE last.pre
    /\ (last.op = "execute" /\ last.kind = "withdraw") =>
          (last.ret = "Withdrawal of $ executed.") <=> FGeq(last.pre, last.amount)

\* a withdraw was refused, and another emptied an account
C1_Witness ==
    /\ last.op = "withdraw" /\ last.ret = "True"
    /\ balance[last.account] = FZero
    /\ \E c \in CUSTOMERS : \E i \in 1..Len(notifications[c]) :
          notifications[c][i].kind = "Withdrawal" /\ ~notifications[c][i].ok

C3_ExecuteUndoRestores ==
    (last.op = "undo" /\ last.follows) =>
        balance[last.account] = snapshot[last.cmd]

\* C4 as stated: execute() on a command that is already executed leaves the
\* balance alone, and a command that was undone is never executed again.
C4_ExecuteOnlyWhenCreated ==
    /\ (last.op = "execute" /\ last.wasExecuted) =>
          balance[last.account] = last.pre
    /\ \A i \in 1..Len(commands) : ~(undone[i] /\ commands[i].executed)

\* C5: WithdrawCommand.execute() with an amount above the balance changes
\* neither the balance nor the history, leaves the command not executed and
\* returns the failure text.
C5_FailedWithdrawCommand ==
    [][(/\ last'.op \in {"execute", "transact"} /\ last'.kind = "withdraw"
        /\ last'.account \in ACCOUNTS /\ ~last'.wasExecuted
        /\ FGt(last'.amount, last'.pre) /\ FGt(last'.amount, FZero))
       => /\ balance' = balance
          /\ transaction_history' = transaction_history
          /\ ~last'.executed
          /\ last'.op = "execute" =>
                /\ last'.ret = "Withdrawal failed due to insufficient funds."
                /\ ~commands'[last'.cmd].executed]_vars

\* a WithdrawCommand's execute() failed for insufficient funds
C5_Witness ==
    /\ last.op = "execute" /\ last.kind = "withdraw" /\ ~last.wasExecuted
    /\ FGt(last.amount, last.pre)
    /\ \E c \in Attached(last.account) :
          ~notifications[c][Len(notifications[c])].ok

\* C6: undo() on a command that is not executed (never executed, or undone
\* already) changes no balance, no sink log and no history, and returns the
\* 'not executed or already undone' text.
C6_UndoNotExecuted ==
    [][(last'.op = "undo" /\ ~last'.wasExecuted)
       => /\ UNCHANGED <<balance, notifications, transaction_history>>
          /\ last'.ret \in {"Deposit command not executed or already undone.",
                            "Withdrawal command not executed or already undone."}
          /\ ~last'.executed]_vars

\* undo() was called on a DepositCommand that had been undone already
C6_Witness ==
    /\ last.op = "undo" /\ ~last.wasExecuted /\ last.kind = "deposit"
    /\ undone[last.cmd]

\* C7 as stated: a command that the invoker executed successfully is kept, so
\* that it can be undone later.
C7_InvokerKeepsHistory ==
    (last.op = "transact" /\ last.executed) =>
        \E i \in 1..Len(commands) :
            /\ commands[i] = [kind |-> last.kind, receiver |-> last.account,
                              amount |-> last.amount, executed |-> TRUE]

\* C8: a call of deposit or withdraw, alone or from a command, calls update
\* once on each attached sink, in attachment order: each of them has one
\* message more, the same one, and no other sink has.
C8_OneFanOut ==
    [][(\/ last'.op \in {"deposit", "withdraw", "execute"}
        \/ last'.op = "undo" /\ last'.wasExecuted)
       => /\ last'.calls = observers[last'.account]
          /\ \E m \in {notifications'[c][Len(notifications'[c])] :
                          c \in Attached(last'.account)} :
               \A c \in CUSTOMERS :
                  notifications'[c] =
                     IF c \in Attached(last'.account)
                     THEN Append(notifications[c], m)
                     ELSE notifications[c]]_vars

\* a withdraw was refused on an account with two sinks attached
C8_Witness ==
    /\ last.op = "withdraw" /\ last.ret = "False"
    /\ Len(observers[last.account]) = 2
    /\ last.calls = observers[last.account]

C10_InvalidRequestRejected ==
    [][(/\ last'.op = "transact"
        /\ \/ last'.account \notin ACCOUNTS
           \/ ~FGt(last'.amount, FZero))
       => UNCHANGED <<balance, notifications, transaction_history>>]_vars

\* a request with a negative amount for a known account was served
C10_Witness ==
    /\ last.op = "transact" /\ last.account \in ACCOUNTS
    /\ last.amount.neg
    /\ ncalls > 1

\* the number of times c occurs in the sequence q
Occurrences(q, c) == Cardinality({i \in 1..Len(q) : q[i] = c})

\* C11: attach is idempotent. No sink is twice in an account's sink list,
\* after attach(sink) the sink is in the list once, and a fan-out of deposit
\* or withdraw calls update on each attached sink once.
C11_AttachIdempotent ==
    /\ \A a \in ACCOUNTS : \A c \in CUSTOMERS : Occurrences(observers[a], c) <= 1
    /\ last.op = "attach" => Occurrences(observers[last.account], last.kind) = 1
    /\ (\/ last.op \in {"deposit", "withdraw", "execute"}
        \/ last.op = "undo" /\ last.wasExecuted)
          => \A c \in Attached(last.account) : Occurrences(last.calls, c) = 1

\* a sink that was attached from the start was attached again, after a
\* second sink had been attached to the same account
C11_Witness ==
    /\ last.op = "attach" /\ last.account = "S101" /\ last.kind = "Alice"
    /\ observers["S101"] = <<"Alice", "Bob">>

\* C12: a step that asks an account's yearly interest or replaces its
\* strategy changes no balance, no sink log and no history, and two calls made
\* with the same balance and the same strategy return the same.
C12_InterestIsPure ==
    [][/\ (interest' # interest \/ interest_strategy' # interest_strategy)
            => UNCHANGED <<balance, notifications, transaction_history>>
       /\ \A a \in ACCOUNTS, b \in ACCOUNTS :
            (/\ interest'[a].called /\ interest'[b].called
             /\ interest'[a].balance = interest'[b].balance
             /\ interest'[a].strategy = interest'[b].strategy)
            => /\ interest'[a].value = interest'[b].value
               /\ interest'[a].raised = interest'[b].raised]_vars

\* both accounts were given the high-rate strategy in place of their own and
\* returned the same interest, not zero, for the same balance
C12_Witness ==
    /\ \A a \in ACCOUNTS :
          /\ interest[a].called /\ interest[a].strategy = "FDInterest"
          /\ interest[a].balance = balance[a]
          /\ interest[a].value # FZero
    /\ balance["S101"] = balance["C202"]

\* C13 as stated: calculate_yearly_interest on an account without a strategy
\* returns zero and does not fail.
C13_NoStrategyGivesZero ==
    \A a \in ACCOUNTS :
        (interest[a].called /\ interest[a].strategy = "None")
        => ~interest[a].raised /\ interest[a].value = FZero

\* the percentage of a strategy
Percent(strategy) ==
    IF strategy = "SavingsInterest" THEN 2
    ELSE IF strategy = "FDInterest" THEN 5
    ELSE 0

\* n hundredths of a cent in whole cents, a half rounded up
HalfUp(n) == (n + 50) \div 100

\* n hundredths of a cent in whole cents, a half rounded to the even cent
HalfEven(n) ==
    IF n % 100 = 50 /\ (n \div 100) % 2 = 0 THEN n \div 100 ELSE (n + 50) \div 100

\* C14 as stated: the interest returned for a balance of whole cents is the
\* strategy's percentage of it rounded to the cent, a half going up or to
\* the even cent.
C14_InterestIsPercentage ==
    \A a \in ACCOUNTS :
        (interest[a].called /\ ~interest[a].raised)
        => Format2f(interest[a].value) \in
              {HalfUp(Format2f(interest[a].balance) * Percent(interest[a].strategy)),
               HalfEven(Format2f(interest[a].balance) * Percent(interest[a].strategy))}

\* the balances that serving the request of r alone, from start to end,
\* leaves of the balances b
Served(b, r) ==
    IF r.kind = "deposit"
    THEN deposit([balance |-> b, notifications |-> notifications],
                 r.account, r.amount).balance
    ELSE IF r.kind = "withdraw"
    THEN withdraw([balance |-> b, notifications |-> notifications],
                  r.account, r.amount).balance
    ELSE b

\* C15 as stated: two requests in flight at once leave the balances that
\* serving them one after the other, in one of the two orders, leaves, and no
\* balance is ever below zero.
C15_RequestsSerialized ==
    /\ \A a \in ACCOUNTS : FGeq(balance[a], FZero)
    /\ (\A t \in THREADS : inflight[t].pc = "done")
          => balance \in {Served(Served(InitialBalance, inflight[1]), inflight[2]),
                          Served(Served(InitialBalance, inflight[2]), inflight[1])}

\* the newest message in the log of sink c
Newest(c) == notifications[c][Len(notifications[c])]

SignedAmount(e) ==
    IF e.text \in {"Deposit +", "Withdrawal UNDO +"} THEN e.amount ELSE 0 - e.amount

RECURSIVE SignedSum(_)
SignedSum(h) == IF h = << >> THEN 0 ELSE SignedAmount(Head(h)) + SignedSum(Tail(h))

\* C17 as stated: after execute() and undo() calls of commands only, held
\* by callers or run by /transact, the balance of every account is its
\* initial balance plus the signed sum of its transaction history. The
\* balances are compared to the cent.
C17_BalanceIsHistorySum ==
    \A a \in ACCOUNTS :
        Format2f(balance[a]) =
            Format2f(InitialBalance[a]) + SignedSum(transaction_history[a])

\* C18: a deposit, a withdrawal, an execute() or an undo() on one account,
\* also one run by /transact, leaves the balance and the history of every
\* other account as they were and appends nothing to the log of a sink that
\* is not attached to the account.
C18_OtherAccountsUntouched ==
    [][(/\ last'.op \in {"deposit", "withdraw", "execute", "undo", "transact"}
        /\ last'.account \in ACCOUNTS)
       => /\ \A b \in ACCOUNTS \ {last'.account} :
               /\ balance'[b] = balance[b]
               /\ transaction_history'[b] = transaction_history[b]
          /\ \A c \in CUSTOMERS \ Attached(last'.account) :
               notifications'[c] = notifications[c]]_vars

\* a call on S101 notified its sink, while the other account has a history
\* and a sink of its own that holds a message and is not attached to S101
C18_Witness ==
    /\ last.op \in {"deposit", "withdraw", "execute", "undo", "transact"}
    /\ last.account = "S101" /\ last.calls # << >>
    /\ transaction_history["C202"] # << >>
    /\ "Bob" \notin Attached("S101")
    /\ notifications["Bob"] # << >>
    /\ balance["C202"] # InitialBalance["C202"]

====
